---- MODULE Spec2Model ----
(***************************************************************************)
(* Model of the gnosis memory service: the memories table and its store    *)
(* layer (Memory), the bidirectional cursor pagination of                  *)
(* Memory.getByFilters with the /memories/list route and the SDK client    *)
(* in front of it, the reconciliation engine (Gnosis) and the memory       *)
(* routes that call it on behalf of an authenticated organization.         *)
(***************************************************************************)
EXTENDS Integers, Sequences, FiniteSets, TLC

VARIABLES
    memories,   \* the memories table: a function from the ids present to rows
    usedIds,    \* ids the database has generated so far (uuid defaultRandom)
    now,        \* the database clock read by defaultNow()
    lst,        \* the listing call (or forward traversal) a client last made
    prompts,    \* the prompts table: a set of rows, one per company at most
    reqs        \* the requests in flight, one per connection

vars == <<memories, usedIds, now, lst, prompts, reqs>>

----------------------------------------------------------------------------
(* Bounds of the model *)

MaxRows == 3        \* ids are 1..MaxRows
MaxTime == 2        \* the clock runs over 1..MaxTime

None == "none"      \* an optional string left undefined
NoId == 0           \* an optional id left undefined
NoEmbedding == <<>> \* an optional embedding left undefined

Ids == 1..MaxRows
Times == 1..MaxTime
Orgs == {"orgA", "orgB"}
Users == {"u1", "u2"}
Agents == {"", "g1"}
Texts == {"t1", "t2"}

\* JavaScript truthiness of an optional string: undefined and "" are falsy
Truthy(x) == x # None /\ x # ""

Min(a, b) == IF a < b THEN a ELSE b

----------------------------------------------------------------------------
(* The embedding provider, taken as a deterministic function of the text *)

EmbedOf(text) == <<"emb", text>>

\* Memory.embed: one embedding per text, in order
embed(texts) == [i \in 1..Len(texts) |-> EmbedOf(texts[i])]

----------------------------------------------------------------------------
(* Memory.add: insert ... on conflict (id) do update *)

\* an item of the batch that carries no orgId makes records.map throw
MemoryAddInvalid(items) == \E i \in 1..Len(items) : ~Truthy(items[i].memory.orgId)

\* the record built for item i; items without an embedding get one on demand
MemoryAddRecord(item) ==
    [ embedding |-> IF item.embedding # NoEmbedding THEN item.embedding
                    ELSE EmbedOf(item.memory.memoryText),
      userId |-> item.memory.userId,
      orgId |-> item.memory.orgId,
      memoryText |-> item.memory.memoryText,
      agentId |-> IF Truthy(item.memory.agentId) THEN item.memory.agentId ELSE "",
      id |-> item.id ]

\* the id under which item i is stored: its own, or the generated one
MemoryAddId(items, fresh, i) == IF items[i].id # NoId THEN items[i].id ELSE fresh[i]

\* an upsert that writes the whole row anew, created_at included
UpsertRowFresh(mem, id, rec, t) ==
    [ id |-> id, embedding |-> rec.embedding, userId |-> rec.userId,
      orgId |-> rec.orgId, memoryText |-> rec.memoryText,
      agentId |-> rec.agentId, createdAt |-> t, updatedAt |-> t ]

\* the row the upsert leaves for one record
UpsertRow(mem, id, rec, t) ==
    IF id \in DOMAIN mem
    THEN [mem[id] EXCEPT !.embedding = rec.embedding, !.userId = rec.userId,
                         !.orgId = rec.orgId, !.memoryText = rec.memoryText,
                         !.agentId = rec.agentId]
    ELSE [ id |-> id, embedding |-> rec.embedding, userId |-> rec.userId,
           orgId |-> rec.orgId, memoryText |-> rec.memoryText,
           agentId |-> rec.agentId, createdAt |-> t, updatedAt |-> t ]

\* the table after the statement; fresh[i] is the uuid generated for item i
MemoryAddTable(mem, items, fresh, t) ==
    LET idOf(i) == MemoryAddId(items, fresh, i)
        written == {idOf(i) : i \in 1..Len(items)}
        last(id) == CHOOSE i \in 1..Len(items) : idOf(i) = id
    IN  [id \in DOMAIN mem \cup written |->
            IF id \in written
            THEN UpsertRow(mem, id, MemoryAddRecord(items[last(id)]), t)
            ELSE mem[id]]

\* two records of one statement under the same id: the database refuses the
\* statement (a row cannot be affected twice by one insert ... on conflict)
MemoryAddConflict(items) ==
    \E i, j \in 1..Len(items) : i # j /\ items[i].id # NoId /\ items[i].id = items[j].id

\* an add that stores the items carrying an orgId before it reports the others
MemoryAddValidOnes(mem, items, fresh, t) ==
    LET valid == {i \in 1..Len(items) : Truthy(items[i].memory.orgId)}
        idOf(i) == MemoryAddId(items, fresh, i)
        written == {idOf(i) : i \in valid}
        last(id) == CHOOSE i \in valid : idOf(i) = id
    IN  [status |-> IF MemoryAddInvalid(items) THEN "error" ELSE "ok",
         error |-> IF MemoryAddInvalid(items) THEN "has no orgId" ELSE None,
         table |-> [id \in DOMAIN mem \cup written |->
                        IF id \in written
                        THEN UpsertRow(mem, id, MemoryAddRecord(items[last(id)]), t)
                        ELSE mem[id]],
         ids |-> IF MemoryAddInvalid(items) THEN <<>>
                 ELSE [i \in 1..Len(items) |-> idOf(i)]]

\* Memory.add as a whole: outcome, table and returned ids
MemoryAdd(mem, items, fresh, t) ==
    IF MemoryAddInvalid(items)
    THEN [status |-> "error", error |-> "has no orgId", table |-> mem, ids |-> <<>>]
    ELSE IF MemoryAddConflict(items)
    THEN [status |-> "error", error |-> "conflict", table |-> mem, ids |-> <<>>]
    ELSE [status |-> "ok", error |-> None,
          table |-> MemoryAddTable(mem, items, fresh, t),
          ids |-> [i \in 1..Len(items) |-> MemoryAddId(items, fresh, i)]]

\* a delete whose condition also takes the rows stored before the named ones
MemoryDeleteUpTo(mem, ids) ==
    [id \in {i \in DOMAIN mem : \A j \in ids : i > j} |-> mem[id]]

\* Memory.delete: delete ... where id in (ids); absent ids are no-ops
MemoryDelete(mem, ids) == [id \in DOMAIN mem \ ids |-> mem[id]]

\* Memory.getAllById
getAllById(mem, ids) == {mem[id] : id \in DOMAIN mem \cap ids}

----------------------------------------------------------------------------
(* Memory.getByFilters *)

\* the equality conditions pushed for the filters that are set
MatchFilters(row, filters) ==
    /\ Truthy(filters.userId) => row.userId = filters.userId
    /\ Truthy(filters.orgId) => row.orgId = filters.orgId
    /\ Truthy(filters.agentId) => row.agentId = filters.agentId

\* limit bounds
LimitMax == 100
ClampLimit(limit) == IF limit < 1 THEN 1 ELSE IF limit > LimitMax THEN LimitMax ELSE limit

\* the forward condition without its tie-break on id
ForwardConditionNoTie(row, ref) == row.createdAt < ref.createdAt

\* a forward condition that lets the cursor row itself through
ForwardConditionInclusive(row, ref) ==
    \/ row.createdAt < ref.createdAt
    \/ (row.createdAt = ref.createdAt /\ row.id <= ref.id)

\* createdAt < ref.createdAt OR (createdAt = ref.createdAt AND id < ref.id)
ForwardCondition(row, ref) ==
    \/ row.createdAt < ref.createdAt
    \/ (row.createdAt = ref.createdAt /\ row.id < ref.id)

\* createdAt > ref.createdAt OR (createdAt = ref.createdAt AND id > ref.id)
BackwardCondition(row, ref) ==
    \/ row.createdAt > ref.createdAt
    \/ (row.createdAt = ref.createdAt /\ row.id > ref.id)

\* ORDER BY created_at DESC, id DESC
DescBefore(x, y) ==
    x.createdAt > y.createdAt \/ (x.createdAt = y.createdAt /\ x.id > y.id)

RECURSIVE OrderDesc(_)
OrderDesc(S) ==
    IF S = {} THEN <<>>
    ELSE LET m == CHOOSE x \in S : \A y \in S \ {x} : DescBefore(x, y)
         IN  <<m>> \o OrderDesc(S \ {m})

\* ORDER BY created_at ASC, id ASC
AscBefore(x, y) ==
    x.createdAt < y.createdAt \/ (x.createdAt = y.createdAt /\ x.id < y.id)

RECURSIVE OrderAsc(_)
OrderAsc(S) ==
    IF S = {} THEN <<>>
    ELSE LET m == CHOOSE x \in S : \A y \in S \ {x} : AscBefore(x, y)
         IN  <<m>> \o OrderAsc(S \ {m})

\* .limit(n) and rows.slice(0, n)
Slice(rows, n) == SubSeq(rows, 1, Min(n, Len(rows)))

\* sliced.reverse()
Reverse(rows) == [i \in 1..Len(rows) |-> rows[Len(rows) + 1 - i]]

\* the columns selected for a page (no embedding)
RowView(row) ==
    [ id |-> row.id, userId |-> row.userId, orgId |-> row.orgId,
      agentId |-> row.agentId, memoryText |-> row.memoryText,
      createdAt |-> row.createdAt, updatedAt |-> row.updatedAt ]

Views(rows) == [i \in 1..Len(rows) |-> RowView(rows[i])]

ListError(msg, q) ==
    [status |-> "error", error |-> msg, data |-> <<>>, has_more |-> FALSE, queries |-> q]

\* the forward page with has_more taken from a full page instead of limit+1 rows
ForwardPageFull(mem, filters, limit, reference) ==
    LET sel == {r \in {mem[i] : i \in DOMAIN mem} :
                    /\ MatchFilters(r, filters)
                    /\ \A ref \in reference : ForwardCondition(r, ref)}
        rows == Slice(OrderDesc(sel), limit + 1)
    IN  [status |-> "ok", error |-> None, data |-> Views(Slice(rows, limit)),
         has_more |-> Len(rows) >= limit,
         queries |-> IF reference = {} THEN 1 ELSE 2]

\* the forward query and slice; reference is the set holding the reference
\* record when a cursor was resolved, and empty otherwise
ForwardPage(mem, filters, limit, reference) ==
    LET sel == {r \in {mem[i] : i \in DOMAIN mem} :
                    /\ MatchFilters(r, filters)
                    /\ \A ref \in reference : ForwardCondition(r, ref)}
        rows == Slice(OrderDesc(sel), limit + 1)
    IN  [status |-> "ok", error |-> None, data |-> Views(Slice(rows, limit)),
         has_more |-> Len(rows) > limit,
         queries |-> IF reference = {} THEN 1 ELSE 2]

\* the backward page fetched in descending order: the newest rows of the set
BackwardPageNewest(mem, filters, limit, reference) ==
    LET sel == {r \in {mem[i] : i \in DOMAIN mem} :
                    /\ MatchFilters(r, filters)
                    /\ \A ref \in reference : BackwardCondition(r, ref)}
        rows == Slice(OrderDesc(sel), limit + 1)
    IN  [status |-> "ok", error |-> None, data |-> Views(Slice(rows, limit)),
         has_more |-> TRUE,
         queries |-> IF reference = {} THEN 1 ELSE 2]

\* the backward page with has_more computed as in the forward direction
BackwardPageHasMore(mem, filters, limit, reference) ==
    LET sel == {r \in {mem[i] : i \in DOMAIN mem} :
                    /\ MatchFilters(r, filters)
                    /\ \A ref \in reference : BackwardCondition(r, ref)}
        rows == Slice(OrderAsc(sel), limit + 1)
    IN  [status |-> "ok", error |-> None, data |-> Views(Reverse(Slice(rows, limit))),
         has_more |-> Len(rows) > limit,
         queries |-> IF reference = {} THEN 1 ELSE 2]

\* the backward page returned as fetched, without the reverse
BackwardPageNoReverse(mem, filters, limit, reference) ==
    LET sel == {r \in {mem[i] : i \in DOMAIN mem} :
                    /\ MatchFilters(r, filters)
                    /\ \A ref \in reference : BackwardCondition(r, ref)}
        rows == Slice(OrderAsc(sel), limit + 1)
    IN  [status |-> "ok", error |-> None, data |-> Views(Slice(rows, limit)),
         has_more |-> TRUE,
         queries |-> IF reference = {} THEN 1 ELSE 2]

\* the backward query, slice and reverse
BackwardPage(mem, filters, limit, reference) ==
    LET sel == {r \in {mem[i] : i \in DOMAIN mem} :
                    /\ MatchFilters(r, filters)
                    /\ \A ref \in reference : BackwardCondition(r, ref)}
        rows == Slice(OrderAsc(sel), limit + 1)
    IN  [status |-> "ok", error |-> None, data |-> Views(Reverse(Slice(rows, limit))),
         has_more |-> TRUE,
         queries |-> IF reference = {} THEN 1 ELSE 2]

\* getByFilters without its cursor validation
BothCursorsUnchecked(starting_after, ending_before) == FALSE

\* the cursor validation at the head of getByFilters
BothCursors(starting_after, ending_before) ==
    starting_after # NoId /\ ending_before # NoId

\* the reference lookup: select id, createdAt where id = cursorId limit 1
Reference(mem, cursorId) ==
    IF cursorId \in DOMAIN mem
    THEN {[id |-> mem[cursorId].id, createdAt |-> mem[cursorId].createdAt]}
    ELSE {}

\* a missing reference row taken as "no cursor": the first page is served
CursorMissingIgnored(mem, cursorId) == FALSE

\* if (!refRow[0]) throw "Cursor record not found"
CursorMissing(mem, cursorId) == cursorId # NoId /\ Reference(mem, cursorId) = {}

getByFilters(mem, filters, limit0, includeTotal, starting_after, ending_before) ==
    IF BothCursors(starting_after, ending_before)
    THEN ListError("Cannot use starting_after and ending_before simultaneously.", 0)
    ELSE LET limit == ClampLimit(limit0)
             backward == ending_before # NoId
             cursorId == IF starting_after # NoId THEN starting_after ELSE ending_before
         IN  IF CursorMissing(mem, cursorId)
             THEN ListError("Cursor record not found", 1)
             ELSE IF ~backward
                  THEN ForwardPage(mem, filters, limit, Reference(mem, cursorId))
                  ELSE BackwardPage(mem, filters, limit, Reference(mem, cursorId))

----------------------------------------------------------------------------
(* The /memories/list route and the SDK client in front of getByFilters *)

\* the total a result carries: the returned object has data and has_more only
NoTotal == -1
ResultTotal(res) == IF "total" \in DOMAIN res THEN res.total ELSE NoTotal

NoLimit == -1       \* the optional limit parameter left out
RouteDefaultLimit == 50

\* listMemoriesSchema: limit defaults to 50 and must lie in 1..100
RouteLimit(limit) == IF limit = NoLimit THEN RouteDefaultLimit ELSE limit
RouteLimitValid(limit) == RouteLimit(limit) >= 1 /\ RouteLimit(limit) <= LimitMax

\* memoryRoutes.get("/list"): query is what zValidator parsed
RouteList(mem, companyId, query) ==
    IF ~RouteLimitValid(query.limit)
    THEN ListError("Limit must be between 1 and 100", 0)
    ELSE IF query.starting_after # NoId /\ query.ending_before # NoId
    THEN ListError("The parameters starting_after and ending_before cannot be used simultaneously", 0)
    ELSE getByFilters(mem,
                      [userId |-> query.userId, agentId |-> query.agentId,
                       orgId |-> companyId],
                      RouteLimit(query.limit), FALSE,
                      query.starting_after, query.ending_before)

\* the URLSearchParams the SDK builds: falsy options are left out
SdkParams(options) ==
    [ userId |-> IF Truthy(options.userId) THEN options.userId ELSE None,
      agentId |-> IF Truthy(options.agentId) THEN options.agentId ELSE None,
      limit |-> IF options.limit # NoLimit /\ options.limit # 0
                THEN options.limit ELSE NoLimit,
      starting_after |-> options.starting_after,
      ending_before |-> options.ending_before ]

\* GnosisApiClient.listMemories, the client holding a key of companyId
listMemories(mem, companyId, options) ==
    IF options.starting_after # NoId /\ options.ending_before # NoId
    THEN ListError("starting_after and ending_before parameters cannot be used simultaneously", 0)
    ELSE RouteList(mem, companyId, SdkParams(options))

----------------------------------------------------------------------------
(* Memory.query: nearest neighbours under the equality filters *)

\* cosineDistance of two embeddings of the deterministic provider
CosineDistance(a, b) == IF a = b THEN 0 ELSE 1

QueryDefaultLimit == 10

\* the conditions pushed for the filters that are set
QueryMatch(row, filters) ==
    /\ Truthy(filters.userId) => row.userId = filters.userId
    /\ Truthy(filters.orgId) => row.orgId = filters.orgId
    /\ Truthy(filters.agentId) => row.agentId = filters.agentId

\* the orders ORDER BY cosineDistance may give: equal distances in any order
RankedOrders(S, embedding) ==
    {seq \in [1..Cardinality(S) -> S] :
        /\ \A i, j \in 1..Cardinality(S) : seq[i] = seq[j] => i = j
        /\ \A i \in 1..(Cardinality(S) - 1) :
              CosineDistance(seq[i].embedding, embedding)
                  <= CosineDistance(seq[i + 1].embedding, embedding)}

\* one match of the result: id, score = 1 - distance, metadata
Match(row, embedding) ==
    [ id |-> row.id, score |-> 1 - CosineDistance(row.embedding, embedding),
      userId |-> row.userId, orgId |-> row.orgId, agentId |-> row.agentId,
      memoryText |-> row.memoryText ]

\* the results Memory.query may return for an embedding
MemoryQuery(mem, embedding, limit, filters) ==
    LET sel == {r \in {mem[i] : i \in DOMAIN mem} : QueryMatch(r, filters)}
    IN  {[i \in 1..Min(limit, Len(seq)) |-> Match(seq[i], embedding)] :
            seq \in RankedOrders(sel, embedding)}

----------------------------------------------------------------------------
(* PromptService *)

NoPrompt == <<>>    \* no message sequence: null, or a variable not yet set

\* FACT_EXTRACTION_PROMPT: the built-in message sequence, one system message
DefaultPrompt == <<"FACT_EXTRACTION_PROMPT">>

\* JSON.stringify of a message sequence: a text, never the empty one
JsonStringify(content) == <<"json">> \o content

\* JSON.parse of a stored text
JsonParse(text) == Tail(text)

\* select ... from prompts where company_id = companyId
PromptRows(tbl, companyId) == {p \in tbl : p.companyId = companyId}

\* an insert without its conflict clause
setFactExtractionInsert(tbl, companyId, content) ==
    tbl \cup {[companyId |-> companyId, promptContent |-> JsonStringify(content)]}

\* setFactExtraction: insert ... on conflict (company_id) do update
setFactExtraction(tbl, companyId, content) ==
    IF PromptRows(tbl, companyId) # {}
    THEN {IF p.companyId = companyId
          THEN [p EXCEPT !.promptContent = JsonStringify(content)] ELSE p : p \in tbl}
    ELSE tbl \cup {[companyId |-> companyId, promptContent |-> JsonStringify(content)]}

\* the select of getFactExtraction: the message sequence of the stored row,
\* NoPrompt when no row (or no prompt content) is found
SelectPrompt(tbl, companyId) ==
    IF \E p \in PromptRows(tbl, companyId) : p.promptContent # <<>>
    THEN JsonParse((CHOOSE p \in PromptRows(tbl, companyId) :
                        p.promptContent # <<>>).promptContent)
    ELSE NoPrompt

\* is a row with prompt content found
PromptStored(tbl, companyId) ==
    \E p \in PromptRows(tbl, companyId) : p.promptContent # <<>>

\* getFactExtraction: the stored prompt; none stored: the default, saved lazily
getFactExtraction(tbl, companyId) ==
    IF ~PromptStored(tbl, companyId)
    THEN [prompt |-> DefaultPrompt, table |-> setFactExtraction(tbl, companyId, DefaultPrompt)]
    ELSE [prompt |-> SelectPrompt(tbl, companyId), table |-> tbl]

\* resetFactExtraction: the default is stored as the organization's prompt
resetFactExtraction(tbl, companyId) == setFactExtraction(tbl, companyId, DefaultPrompt)

----------------------------------------------------------------------------
(* Gnosis.add: helpers of the reconciliation *)

TopK == 10

\* a lookup that hands out the first fact's embedding for a text it does not hold
FactEmbeddingFirst(facts, embs, text) ==
    IF \E i \in 1..Len(facts) : facts[i] = text
    THEN embs[CHOOSE i \in 1..Len(facts) :
                 facts[i] = text /\ \A j \in (i + 1)..Len(facts) : facts[j] # text]
    ELSE IF facts # <<>> THEN embs[1] ELSE NoEmbedding

\* newFactToEmbeddings.get(text): the embedding of the last fact with that text
FactEmbedding(facts, embs, text) ==
    IF \E i \in 1..Len(facts) : facts[i] = text
    THEN embs[CHOOSE i \in 1..Len(facts) :
                 facts[i] = text /\ \A j \in (i + 1)..Len(facts) : facts[j] # text]
    ELSE NoEmbedding

\* similarMemories after one more query result: unseen ids appended in order
RECURSIVE AppendUnseen(_, _)
AppendUnseen(similar, matches) ==
    IF matches = <<>> THEN similar
    ELSE AppendUnseen(
            IF \E i \in 1..Len(similar) : similar[i].id = Head(matches).id
            THEN similar ELSE Append(similar, Head(matches)),
            Tail(matches))

\* index.toString() of candidate number i (counted from 1 here)
IndexStr(i) == ToString(i - 1)

\* oldMemories: what the text generator is shown
OldMemories(similar) ==
    [i \in 1..Len(similar) |-> [id |-> IndexStr(i), text |-> similar[i].memoryText]]

\* a lookup that falls back to the first candidate when the key is absent
uuidMappingGetFirst(similar, idStr) ==
    IF \E i \in 1..Len(similar) : IndexStr(i) = idStr
    THEN similar[CHOOSE i \in 1..Len(similar) : IndexStr(i) = idStr].id
    ELSE IF similar # <<>> THEN similar[1].id ELSE NoId

\* uuidMapping.get(id): the real id under an index string, NoId when absent
uuidMappingGet(similar, idStr) ==
    IF \E i \in 1..Len(similar) : IndexStr(i) = idStr
    THEN similar[CHOOSE i \in 1..Len(similar) : IndexStr(i) = idStr].id
    ELSE NoId

\* the id an UPDATE or DELETE item resolves to; NoId: the item is skipped
ResolveItem(similar, item) ==
    IF ~Truthy(item.id) THEN NoId ELSE uuidMappingGet(similar, item.id)

\* the switch of the apply loop: does this item reach the store
ItemSkipped(similar, item) ==
    \/ item.event = "NONE"
    \/ item.event \in {"UPDATE", "DELETE"} /\ ResolveItem(similar, item) = NoId

----------------------------------------------------------------------------
(* Gnosis.get / search and the ownership check of the routes *)

\* Gnosis.get: the row under the id as the caller sees it; {} stands for null
GnosisGet(mem, memoryId) ==
    {[id |-> m.id, text |-> m.memoryText, userId |-> m.userId, orgId |-> m.orgId,
      agentId |-> m.agentId] : m \in getAllById(mem, {memoryId})}

SearchDefaultLimit == 100

\* Gnosis.search: the limit argument is not handed on to Memory.query
GnosisSearch(mem, query, userId, orgId, limit) ==
    MemoryQuery(mem, EmbedOf(query), QueryDefaultLimit,
                [userId |-> userId, orgId |-> orgId, agentId |-> None])

\* an ownership check that only looks for the row
verifyMemoryOwnershipAnyOrg(mem, companyId, memoryId) == GnosisGet(mem, memoryId)

\* verifyMemoryOwnership: the memory, or {} where the function throws
verifyMemoryOwnership(mem, companyId, memoryId) ==
    {m \in GnosisGet(mem, memoryId) : m.orgId = companyId}

----------------------------------------------------------------------------
(* Requests: one record per connection *)

Slots == {"c1", "c2"}

NoResp == [status |-> None, error |-> None, rows |-> {}, ops |-> <<>>]

IdleReq ==
    [op |-> "idle", pc |-> "idle", org |-> None, userId |-> None, id |-> NoId,
     text |-> None, limit |-> NoLimit, prompt |-> NoPrompt, facts |-> <<>>,
     embs |-> <<>>, qi |-> 0, similar |-> <<>>, updates |-> <<>>, k |-> 0,
     ops |-> <<>>, memory |-> <<>>, before |-> <<>>, embedCalls |-> 0,
     queryCalls |-> 0, reconcileCalls |-> 0, resp |-> NoResp]

\* the request of slot r moves to state q
SetReq(r, q) == reqs' = [reqs EXCEPT ![r] = q]

\* the response a route sends, and the end of the handler: the locals of the
\* call are gone, the request and the counts of provider calls are kept
Respond(q, status, error, rows, ops) ==
    [IdleReq EXCEPT !.op = q.op, !.pc = "done", !.org = q.org, !.userId = q.userId,
                    !.id = q.id, !.text = q.text, !.limit = q.limit,
                    !.prompt = q.prompt, !.before = q.before,
                    !.embedCalls = q.embedCalls,
                    !.queryCalls = q.queryCalls, !.reconcileCalls = q.reconcileCalls,
                    !.resp = [status |-> status, error |-> error, rows |-> rows,
                              ops |-> ops]]

----------------------------------------------------------------------------
(* Gnosis.add, one action per awaited call *)

\* POST /api/v1/memories: gnosis.add(userId, messages, companyId)
StartAdd(r, org, user) ==
    /\ reqs[r].op = "idle"
    /\ SetReq(r, [IdleReq EXCEPT !.op = "add", !.pc = "prompt", !.org = org,
                                 !.userId = user])
    /\ UNCHANGED <<memories, usedIds, now, lst, prompts>>

\* the same request, its caller keeping the table as it was when the call began
StartAddObserved(r, org, user) ==
    /\ reqs[r].op = "idle"
    /\ SetReq(r, [IdleReq EXCEPT !.op = "add", !.pc = "prompt", !.org = org,
                                 !.userId = user, !.before = memories])
    /\ UNCHANGED <<memories, usedIds, now, lst, prompts>>

\* the prompt lookup: the stored prompt, or the default saved lazily
AddResolvePrompt(r) ==
    /\ reqs[r].op = "add" /\ reqs[r].pc = "prompt"
    /\ LET got == getFactExtraction(prompts, reqs[r].org)
       IN  /\ prompts' = got.table
           /\ SetReq(r, [reqs[r] EXCEPT !.pc = "extract", !.prompt = got.prompt])
    /\ UNCHANGED <<memories, usedIds, now, lst>>

\* the prompt lookup or the lazy save throws: swallowed, the default is used
AddResolvePromptFails(r) ==
    /\ reqs[r].op = "add" /\ reqs[r].pc = "prompt"
    /\ SetReq(r, [reqs[r] EXCEPT !.pc = "extract", !.prompt = DefaultPrompt])
    /\ UNCHANGED <<memories, usedIds, now, lst, prompts>>

\* the fact extraction returns and the call goes on whatever the list holds
AddExtractFactsNoReturn(r, factLists) ==
    /\ reqs[r].op = "add" /\ reqs[r].pc = "extract"
    /\ \E facts \in factLists :
          SetReq(r, [reqs[r] EXCEPT !.pc = "embed", !.facts = facts])
    /\ UNCHANGED <<memories, usedIds, now, lst, prompts>>

\* the fact extraction returns; no fact: return []
AddExtractFacts(r, factLists) ==
    /\ reqs[r].op = "add" /\ reqs[r].pc = "extract"
    /\ \E facts \in factLists :
          SetReq(r, IF Len(facts) = 0
                    THEN Respond(reqs[r], "200", None, {}, <<>>)
                    ELSE [reqs[r] EXCEPT !.pc = "embed", !.facts = facts])
    /\ UNCHANGED <<memories, usedIds, now, lst, prompts>>

\* memory.embed(facts) and the fact -> embedding map
AddEmbedFacts(r) ==
    /\ reqs[r].op = "add" /\ reqs[r].pc = "embed"
    /\ SetReq(r, [reqs[r] EXCEPT !.pc = "query", !.embs = embed(reqs[r].facts),
                                 !.embedCalls = @ + 1, !.qi = 1])
    /\ UNCHANGED <<memories, usedIds, now, lst, prompts>>

\* the candidate query of fact number qi, merged into similarMemories
AddQuery(r) ==
    /\ reqs[r].op = "add" /\ reqs[r].pc = "query"
    /\ \E matches \in MemoryQuery(memories, reqs[r].embs[reqs[r].qi], TopK,
                                  [userId |-> reqs[r].userId, orgId |-> reqs[r].org,
                                   agentId |-> None]) :
          SetReq(r, [reqs[r] EXCEPT
                        !.similar = AppendUnseen(@, matches),
                        !.queryCalls = @ + 1,
                        !.qi = @ + 1,
                        !.pc = IF reqs[r].qi = Len(reqs[r].facts)
                               THEN "reconcile" ELSE "query"])
    /\ UNCHANGED <<memories, usedIds, now, lst, prompts>>

\* the reconciliation call returns its list of items
AddReconcile(r, updateLists) ==
    /\ reqs[r].op = "add" /\ reqs[r].pc = "reconcile"
    /\ \E ups \in updateLists :
          SetReq(r, IF Len(ups) = 0
                    THEN Respond([reqs[r] EXCEPT !.reconcileCalls = @ + 1],
                                 "200", None, {}, <<>>)
                    ELSE [reqs[r] EXCEPT !.pc = "apply", !.updates = ups, !.k = 1,
                                         !.reconcileCalls = @ + 1])
    /\ UNCHANGED <<lst, prompts, memories, usedIds, now>>

\* a loop that hands back its operation list last entry first
AfterItemReversed(q, ops) ==
    IF q.k = Len(q.updates)
    THEN Respond([q EXCEPT !.ops = ops], "200", None, {}, Reverse(ops))
    ELSE [q EXCEPT !.ops = ops, !.k = @ + 1]

\* the request after item k of the loop has been handled with operation list ops
AfterItem(q, ops) ==
    IF q.k = Len(q.updates)
    THEN Respond([q EXCEPT !.ops = ops], "200", None, {}, ops)
    ELSE [q EXCEPT !.ops = ops, !.k = @ + 1]

\* case "ADD": memory.add of a new row, then updates.push
AddApplyADD(r) ==
    /\ reqs[r].op = "add" /\ reqs[r].pc = "apply"
    /\ reqs[r].updates[reqs[r].k].event = "ADD"
    /\ \E fresh \in Ids \ usedIds, t \in now..MaxTime :
          LET q == reqs[r]
              item == q.updates[q.k]
              emb == FactEmbedding(q.facts, q.embs, item.text)
              w == MemoryAdd(memories,
                             << [id |-> NoId, embedding |-> emb,
                                 memory |-> [memoryText |-> item.text,
                                             userId |-> q.userId, orgId |-> q.org,
                                             agentId |-> None]] >>,
                             <<fresh>>, t)
              q2 == [q EXCEPT !.embedCalls = IF emb = NoEmbedding THEN @ + 1 ELSE @]
          IN  /\ w.status = "ok"
              /\ memories' = w.table
              /\ usedIds' = usedIds \cup {fresh}
              /\ now' = t
              /\ SetReq(r, AfterItem(q2, Append(q.ops,
                        [type |-> "ADD", id |-> w.ids[1], text |-> item.text,
                         oldText |-> None])))
    /\ UNCHANGED <<lst, prompts>>

\* case "UPDATE" with a resolved index: memory.add under the real id; the
\* clock is read (defaultNow) only where the statement inserts the row
AddApplyUPDATE(r) ==
    /\ reqs[r].op = "add" /\ reqs[r].pc = "apply"
    /\ reqs[r].updates[reqs[r].k].event = "UPDATE"
    /\ ResolveItem(reqs[r].similar, reqs[r].updates[reqs[r].k]) # NoId
    /\ \E t \in now..MaxTime :
          LET q == reqs[r]
              item == q.updates[q.k]
              realUuid == ResolveItem(q.similar, item)
              w == MemoryAdd(memories,
                             << [id |-> realUuid, embedding |-> NoEmbedding,
                                 memory |-> [memoryText |-> item.text,
                                             userId |-> q.userId, orgId |-> q.org,
                                             agentId |-> None]] >>,
                             <<NoId>>, t)
              q2 == [q EXCEPT !.embedCalls = @ + 1]
          IN  /\ w.status = "ok"
              /\ realUuid \in DOMAIN memories => t = now
              /\ memories' = w.table
              /\ usedIds' = usedIds \cup {realUuid}
              /\ now' = t
              /\ SetReq(r, AfterItem(q2, Append(q.ops,
                        [type |-> "UPDATE", id |-> realUuid, text |-> item.text,
                         oldText |-> item.old_memory])))
    /\ UNCHANGED <<lst, prompts>>

\* case "DELETE" with a resolved index: memory.delete of the real id
AddApplyDELETE(r) ==
    /\ reqs[r].op = "add" /\ reqs[r].pc = "apply"
    /\ reqs[r].updates[reqs[r].k].event = "DELETE"
    /\ ResolveItem(reqs[r].similar, reqs[r].updates[reqs[r].k]) # NoId
    /\ LET q == reqs[r]
           deleteUuid == ResolveItem(q.similar, q.updates[q.k])
       IN  /\ memories' = MemoryDelete(memories, {deleteUuid})
           /\ SetReq(r, AfterItem(q, Append(q.ops,
                     [type |-> "DELETE", id |-> deleteUuid, text |-> None,
                      oldText |-> None])))
    /\ UNCHANGED <<lst, prompts, usedIds, now>>

\* case "NONE", and UPDATE / DELETE whose index does not resolve: continue
AddApplySkip(r) ==
    /\ reqs[r].op = "add" /\ reqs[r].pc = "apply"
    /\ ItemSkipped(reqs[r].similar, reqs[r].updates[reqs[r].k])
    /\ SetReq(r, AfterItem(reqs[r], reqs[r].ops))
    /\ UNCHANGED <<lst, prompts, memories, usedIds, now>>

\* a failure that puts the table back as it was when the call began
AddFailsRollback(r) ==
    /\ reqs[r].op = "add"
    /\ \/ reqs[r].pc \in {"extract", "embed", "query", "reconcile"}
       \/ /\ reqs[r].pc = "apply"
          /\ ~ItemSkipped(reqs[r].similar, reqs[r].updates[reqs[r].k])
    /\ memories' = reqs[r].before
    /\ SetReq(r, Respond(reqs[r], "500", "error", {}, <<>>))
    /\ UNCHANGED <<lst, prompts, usedIds, now>>

\* the awaited provider or store call of gnosis.add throws: the route answers 500
AddFails(r) ==
    /\ reqs[r].op = "add"
    /\ \/ reqs[r].pc \in {"extract", "embed", "query", "reconcile"}
       \/ /\ reqs[r].pc = "apply"
          /\ ~ItemSkipped(reqs[r].similar, reqs[r].updates[reqs[r].k])
    /\ SetReq(r, Respond(reqs[r], "500", "error", {}, <<>>))
    /\ UNCHANGED <<lst, prompts, memories, usedIds, now>>

\* the response has been sent; the connection takes the next request
ReqReturn(r) ==
    /\ reqs[r].pc = "done"
    /\ SetReq(r, IdleReq)
    /\ UNCHANGED <<lst, prompts, memories, usedIds, now>>

----------------------------------------------------------------------------
(* The routes under /api/v1/memories besides POST / *)

\* GET, PUT or DELETE /:memory_id arrives
StartById(r, org, op, id, text) ==
    /\ reqs[r].op = "idle"
    /\ SetReq(r, [IdleReq EXCEPT !.op = op, !.pc = "verify", !.org = org, !.id = id,
                                 !.text = text])
    /\ UNCHANGED <<memories, usedIds, now, lst, prompts>>

\* await verifyMemoryOwnership: a throw is answered 404 by every handler
VerifyOwnership(r) ==
    /\ reqs[r].op \in {"get", "put", "delete"} /\ reqs[r].pc = "verify"
    /\ LET q == reqs[r]
           found == verifyMemoryOwnership(memories, q.org, q.id)
       IN  SetReq(r, IF found = {}
                     THEN Respond(q, "404", "Memory not found", {}, <<>>)
                     ELSE IF q.op = "get" THEN Respond(q, "200", None, found, <<>>)
                     ELSE IF q.op = "put" THEN [q EXCEPT !.pc = "updGet"]
                     ELSE [q EXCEPT !.pc = "del"])
    /\ UNCHANGED <<memories, usedIds, now, lst, prompts>>

\* Gnosis.update, first await: this.get(memoryId), throwing when it is gone
UpdateGet(r) ==
    /\ reqs[r].op = "put" /\ reqs[r].pc = "updGet"
    /\ LET q == reqs[r]
           found == GnosisGet(memories, q.id)
       IN  SetReq(r, IF found = {}
                     THEN Respond(q, "404", "Memory not found", {}, <<>>)
                     ELSE [q EXCEPT !.pc = "updAdd",
                                    !.memory = <<CHOOSE m \in found : TRUE>>])
    /\ UNCHANGED <<memories, usedIds, now, lst, prompts>>

\* Gnosis.update, second await: memory.add under the id with the row's owner
UpdateAdd(r) ==
    /\ reqs[r].op = "put" /\ reqs[r].pc = "updAdd"
    /\ \E t \in now..MaxTime :
          LET q == reqs[r]
              w == MemoryAdd(memories,
                             << [id |-> q.id, embedding |-> NoEmbedding,
                                 memory |-> [memoryText |-> q.text,
                                             userId |-> q.memory[1].userId,
                                             orgId |-> q.memory[1].orgId,
                                             agentId |-> None]] >>,
                             <<NoId>>, t)
          IN  /\ w.status = "ok"
              /\ q.id \in DOMAIN memories => t = now
              /\ memories' = w.table
              /\ now' = t
              /\ SetReq(r, Respond(q, "200", None, {}, <<>>))
    /\ UNCHANGED <<usedIds, lst, prompts>>

\* Gnosis.delete: memory.delete([memoryId])
DeleteRun(r) ==
    /\ reqs[r].op = "delete" /\ reqs[r].pc = "del"
    /\ memories' = MemoryDelete(memories, {reqs[r].id})
    /\ SetReq(r, Respond(reqs[r], "200", None, {}, <<>>))
    /\ UNCHANGED <<usedIds, now, lst, prompts>>

\* an awaited store call of these handlers throws: answered 404 as well
ByIdFails(r) ==
    /\ reqs[r].op \in {"get", "put", "delete"}
    /\ reqs[r].pc \in {"verify", "updGet", "updAdd", "del"}
    /\ SetReq(r, Respond(reqs[r], "404", "Memory not found", {}, <<>>))
    /\ UNCHANGED <<memories, usedIds, now, lst, prompts>>

\* Gnosis.update, Gnosis.delete or Gnosis.get called directly, without a route
StartGnosis(r, op, id, text) ==
    /\ reqs[r].op = "idle"
    /\ SetReq(r, [IdleReq EXCEPT !.op = op, !.id = id, !.text = text,
                                 !.pc = IF op = "put" THEN "updGet"
                                        ELSE IF op = "delete" THEN "del" ELSE "get"])
    /\ UNCHANGED <<memories, usedIds, now, lst, prompts>>

\* Gnosis.get returns the memory, or null
GetRun(r) ==
    /\ reqs[r].op = "get" /\ reqs[r].pc = "get"
    /\ SetReq(r, Respond(reqs[r], "200", None, GnosisGet(memories, reqs[r].id), <<>>))
    /\ UNCHANGED <<memories, usedIds, now, lst, prompts>>

\* POST /search: gnosis.search(query, userId, companyId, limit)
SearchRequest(r, org, userId, query, limit) ==
    /\ reqs[r].op = "idle"
    /\ \E matches \in GnosisSearch(memories, query, userId, org, limit) :
          SetReq(r, Respond([IdleReq EXCEPT !.op = "search", !.org = org,
                                            !.userId = userId, !.text = query,
                                            !.limit = limit],
                            "200", None, {matches[i] : i \in 1..Len(matches)},
                            matches))
    /\ UNCHANGED <<memories, usedIds, now, lst, prompts>>

\* GET /list: 400 from the validation, 500 from a throwing getByFilters
ListRequest(r, org, query) ==
    /\ reqs[r].op = "idle"
    /\ LET res == RouteList(memories, org, query)
           q == [IdleReq EXCEPT !.op = "list", !.org = org]
       IN  SetReq(r, IF res.status = "ok"
                     THEN Respond(q, "200", None,
                                  {res.data[i] : i \in 1..Len(res.data)}, <<>>)
                     ELSE Respond(q, IF res.queries = 0 THEN "400" ELSE "500",
                                  res.error, {}, <<>>))
    /\ UNCHANGED <<memories, usedIds, now, lst, prompts>>

----------------------------------------------------------------------------
(* Memory.add called with a batch of items *)

\* Memory.add(items) is called
StartStoreAdd(r, items) ==
    /\ reqs[r].op = "idle"
    /\ SetReq(r, [IdleReq EXCEPT !.op = "storeAdd", !.pc = "insert", !.memory = items,
                                 !.before = memories])
    /\ UNCHANGED <<memories, usedIds, now, lst, prompts>>

\* the records are built and the statement runs: the ids, or the error thrown;
\* the caller still holds the batch it passed
StoreAddRun(r) ==
    /\ reqs[r].op = "storeAdd" /\ reqs[r].pc = "insert"
    /\ \E fresh \in [1..Len(reqs[r].memory) -> (Ids \ usedIds) \cup {NoId}],
          t \in now..MaxTime :
          LET q == reqs[r]
              w == MemoryAdd(memories, q.memory, fresh, t)
          IN  /\ \A i \in 1..Len(q.memory) :
                    /\ (q.memory[i].id = NoId /\ w.status = "ok") = (fresh[i] # NoId)
                    /\ \A j \in 1..Len(q.memory) :
                          (i # j /\ fresh[i] # NoId) => fresh[i] # fresh[j]
              /\ (w.status = "ok" /\ \A i \in 1..Len(q.memory) : fresh[i] = NoId)
                    => t = now
              /\ w.status # "ok" => t = now
              /\ memories' = w.table
              /\ usedIds' = usedIds \cup {w.ids[i] : i \in 1..Len(w.ids)}
              /\ now' = t
              /\ SetReq(r, [Respond(q, IF w.status = "ok" THEN "200" ELSE "error",
                                    w.error, {}, w.ids)
                                EXCEPT !.memory = q.memory])
    /\ UNCHANGED <<lst, prompts>>

\* the embedding call or the statement throws: Memory.add rethrows
StoreAddFails(r) ==
    /\ reqs[r].op = "storeAdd" /\ reqs[r].pc = "insert"
    /\ SetReq(r, [Respond(reqs[r], "error", "error", {}, <<>>)
                    EXCEPT !.memory = reqs[r].memory])
    /\ UNCHANGED <<memories, usedIds, now, lst, prompts>>

----------------------------------------------------------------------------
(* The routes under /api/v1/prompts and the prompt lookup of Gnosis.add,   *)
(* one action per awaited statement of PromptService                       *)

\* GET /instructions, POST /instructions with a content, POST /instructions/reset
StartPrompt(r, org, op, content) ==
    /\ reqs[r].op = "idle"
    /\ SetReq(r, [IdleReq EXCEPT !.op = op, !.org = org, !.prompt = content,
                                 !.pc = IF op = "getPrompt" THEN "prompt" ELSE "upsert"])
    /\ UNCHANGED <<memories, usedIds, now, lst, prompts>>

\* getFactExtraction has its answer: the route responds, Gnosis.add goes on
AfterPrompt(q, prompt) ==
    IF q.op = "add"
    THEN [q EXCEPT !.pc = "extract", !.prompt = prompt]
    ELSE Respond([q EXCEPT !.prompt = prompt], "200", None, {}, <<>>)

\* getFactExtraction, first await: the select; a stored prompt is returned
PromptSelect(r) ==
    /\ reqs[r].op \in {"getPrompt", "add"} /\ reqs[r].pc = "prompt"
    /\ SetReq(r, IF PromptStored(prompts, reqs[r].org)
                 THEN AfterPrompt(reqs[r], SelectPrompt(prompts, reqs[r].org))
                 ELSE [reqs[r] EXCEPT !.pc = "promptSave"])
    /\ UNCHANGED <<memories, usedIds, now, lst, prompts>>

\* a select whose throw is not caught: the caller fails
PromptSelectAborts(r) ==
    /\ reqs[r].op \in {"getPrompt", "add"} /\ reqs[r].pc = "prompt"
    /\ SetReq(r, Respond(reqs[r], "500", "Failed to retrieve prompt", {}, <<>>))
    /\ UNCHANGED <<memories, usedIds, now, lst, prompts>>

\* the select throws: caught, the default is returned
PromptSelectFails(r) ==
    /\ reqs[r].op \in {"getPrompt", "add"} /\ reqs[r].pc = "prompt"
    /\ SetReq(r, AfterPrompt(reqs[r], DefaultPrompt))
    /\ UNCHANGED <<memories, usedIds, now, lst, prompts>>

\* getFactExtraction, second await: the default is saved, then returned
PromptLazySave(r) ==
    /\ reqs[r].op \in {"getPrompt", "add"} /\ reqs[r].pc = "promptSave"
    /\ prompts' = setFactExtraction(prompts, reqs[r].org, DefaultPrompt)
    /\ SetReq(r, AfterPrompt(reqs[r], DefaultPrompt))
    /\ UNCHANGED <<memories, usedIds, now, lst>>

\* the save throws: caught, the default is returned all the same
PromptLazySaveFails(r) ==
    /\ reqs[r].op \in {"getPrompt", "add"} /\ reqs[r].pc = "promptSave"
    /\ SetReq(r, AfterPrompt(reqs[r], DefaultPrompt))
    /\ UNCHANGED <<memories, usedIds, now, lst, prompts>>

\* setFactExtraction / resetFactExtraction: the upsert
PromptUpsert(r) ==
    /\ reqs[r].op \in {"setPrompt", "resetPrompt"} /\ reqs[r].pc = "upsert"
    /\ prompts' = IF reqs[r].op = "setPrompt"
                  THEN setFactExtraction(prompts, reqs[r].org, reqs[r].prompt)
                  ELSE resetFactExtraction(prompts, reqs[r].org)
    /\ SetReq(r, Respond(reqs[r], "200", None, {}, <<>>))
    /\ UNCHANGED <<memories, usedIds, now, lst>>

\* the upsert throws: rethrown, the route answers 500
PromptUpsertFails(r) ==
    /\ reqs[r].op \in {"setPrompt", "resetPrompt"} /\ reqs[r].pc = "upsert"
    /\ SetReq(r, Respond(reqs[r], "500", "Failed to update prompt", {}, <<>>))
    /\ UNCHANGED <<memories, usedIds, now, lst, prompts>>

----------------------------------------------------------------------------
(* Outputs of the text generator *)

FactLists == {<<>>, <<"t1">>, <<"t2", "t1">>, <<"t1", "t1">>}

Item(event, id, text) == [event |-> event, id |-> id, text |-> text, old_memory |-> None]

Items ==
    {Item("ADD", None, t) : t \in Texts}
    \cup {Item("NONE", "0", "t1")}
    \cup {Item("UPDATE", i, "t2") : i \in {None, "0", "7"}}
    \cup {Item("DELETE", i, "t1") : i \in {None, "0", "7"}}

\* the answers of the reconciliation: no item, one item, two items
UpdateLists == {<<>>} \cup {<<a>> : a \in Items} \cup {<<a, b>> : a, b \in Items}

----------------------------------------------------------------------------
(* Inputs of the listing calls *)

FilterSets ==
    { [userId |-> None, orgId |-> None, agentId |-> None],
      [userId |-> None, orgId |-> "orgA", agentId |-> None],
      [userId |-> "u2", orgId |-> None, agentId |-> ""],
      [userId |-> "u1", orgId |-> "orgA", agentId |-> None],
      [userId |-> None, orgId |-> "orgB", agentId |-> "g1"] }
Limits == {0, 2, 101}
RouteLimits == {NoLimit, 0, 1}
CursorPairs ==
    {<<NoId, NoId>>} \cup {<<i, NoId>> : i \in Ids} \cup {<<NoId, i>> : i \in Ids}
        \cup {<<i, i>> : i \in Ids}
TotalCursorPairs == {<<NoId, NoId>>, <<1, NoId>>, <<NoId, 1>>}
RouteCursorPairs == {<<NoId, NoId>>, <<1, NoId>>, <<NoId, 1>>, <<1, 1>>, <<1, 2>>}
RouteQueries ==
    {[userId |-> u, agentId |-> None, limit |-> l, starting_after |-> c[1],
      ending_before |-> c[2]] :
        u \in {None, "u1"}, l \in RouteLimits, c \in RouteCursorPairs}

\* the (userId, orgId, agentId) of the rows written straight through Memory.add
StoreOwners ==
    { [userId |-> "u1", orgId |-> "orgA", agentId |-> None],
      [userId |-> "u2", orgId |-> "orgB", agentId |-> "g1"] }

Idle ==
    [kind |-> "idle", layer |-> "store",
     filters |-> [userId |-> None, orgId |-> None, agentId |-> None],
     limit |-> 0, starting_after |-> NoId, ending_before |-> NoId,
     res |-> ListError(None, 0), acc |-> <<>>, pages |-> 0]

----------------------------------------------------------------------------
(* Initial state: an empty table *)

Init ==
    /\ memories = <<>>
    /\ usedIds = {}
    /\ now = 1
    /\ lst = Idle
    /\ prompts = {}
    /\ reqs = [r \in Slots |-> IdleReq]

\* a direct Memory.add of one new row; the statement reads the clock at t
StoreAdd ==
    \E o \in StoreOwners, id \in Ids \ usedIds, t \in now..MaxTime :
        LET r == MemoryAdd(memories,
                           << [id |-> NoId, embedding |-> NoEmbedding,
                               memory |-> [memoryText |-> "t1", userId |-> o.userId,
                                           orgId |-> o.orgId, agentId |-> o.agentId]] >>,
                           <<id>>, t)
        IN  /\ lst.kind = "idle"
            /\ r.status = "ok"
            /\ memories' = r.table
            /\ usedIds' = usedIds \cup {id}
            /\ now' = t
            /\ lst' = Idle
            /\ UNCHANGED <<prompts, reqs>>

\* a direct Memory.delete of one id
StoreDelete ==
    \E id \in DOMAIN memories :
        /\ lst.kind = "idle"
        /\ memories' = MemoryDelete(memories, {id})
        /\ lst' = Idle
        /\ UNCHANGED <<usedIds, now, prompts, reqs>>

\* one call of Memory.getByFilters
ListCall ==
    \E f \in FilterSets, l \in Limits, c \in CursorPairs :
        /\ lst.kind = "idle"
        /\ lst' = [kind |-> "call", layer |-> "store", filters |-> f, limit |-> l,
                   starting_after |-> c[1], ending_before |-> c[2],
                   res |-> getByFilters(memories, f, l, FALSE, c[1], c[2]),
                   acc |-> <<>>, pages |-> 0]
        /\ UNCHANGED <<memories, usedIds, now, prompts, reqs>>

\* one call of Memory.getByFilters with includeTotal = true
ListTotalCall ==
    \E f \in FilterSets, c \in TotalCursorPairs :
        /\ lst.kind = "idle"
        /\ lst' = [kind |-> "total", layer |-> "store", filters |-> f, limit |-> 2,
                   starting_after |-> c[1], ending_before |-> c[2],
                   res |-> getByFilters(memories, f, 2, TRUE, c[1], c[2]),
                   acc |-> <<>>, pages |-> 0]
        /\ UNCHANGED <<memories, usedIds, now, prompts, reqs>>

\* one GET /api/v1/memories/list request of an authenticated company
RouteListCall ==
    \E company \in Orgs, q \in RouteQueries :
        /\ lst.kind = "idle"
        /\ lst' = [kind |-> "call", layer |-> "route",
                   filters |-> [userId |-> q.userId, orgId |-> company,
                                agentId |-> q.agentId],
                   limit |-> RouteLimit(q.limit),
                   starting_after |-> q.starting_after,
                   ending_before |-> q.ending_before,
                   res |-> RouteList(memories, company, q),
                   acc |-> <<>>, pages |-> 0]
        /\ UNCHANGED <<memories, usedIds, now, prompts, reqs>>

\* one listMemories call of an SDK client
SdkListCall ==
    \E company \in Orgs, q \in RouteQueries :
        /\ lst.kind = "idle"
        /\ lst' = [kind |-> "call", layer |-> "sdk",
                   filters |-> [userId |-> SdkParams(q).userId, orgId |-> company,
                                agentId |-> SdkParams(q).agentId],
                   limit |-> RouteLimit(SdkParams(q).limit),
                   starting_after |-> q.starting_after,
                   ending_before |-> q.ending_before,
                   res |-> listMemories(memories, company, q),
                   acc |-> <<>>, pages |-> 0]
        /\ UNCHANGED <<memories, usedIds, now, prompts, reqs>>

\* a client starts a forward traversal: the first page, no cursor
WalkStart ==
    \E f \in FilterSets, l \in Limits :
        LET r == getByFilters(memories, f, l, FALSE, NoId, NoId)
        IN  /\ lst.kind = "idle"
            /\ lst' = [kind |-> "walk", layer |-> "store", filters |-> f, limit |-> l,
                       starting_after |-> NoId, ending_before |-> NoId,
                       res |-> r, acc |-> r.data, pages |-> 1]
            /\ UNCHANGED <<memories, usedIds, now, prompts, reqs>>

\* the next page: starting_after = the id of the last row of the previous page
WalkNext ==
    /\ lst.kind = "walk"
    /\ lst.res.status = "ok"
    /\ lst.res.has_more
    /\ Len(lst.res.data) > 0
    /\ LET cursor == lst.res.data[Len(lst.res.data)].id
           r == getByFilters(memories, lst.filters, lst.limit, FALSE, cursor, NoId)
       IN  lst' = [lst EXCEPT !.starting_after = cursor, !.res = r,
                              !.acc = lst.acc \o r.data, !.pages = lst.pages + 1]
    /\ UNCHANGED <<memories, usedIds, now, prompts, reqs>>

\* the client is done with the response
ListReturn ==
    /\ lst.kind # "idle"
    /\ lst' = Idle
    /\ UNCHANGED <<memories, usedIds, now, prompts, reqs>>

\* a client starts a forward traversal and keeps the table of that moment
WalkStartObserved ==
    \E f \in FilterSets, l \in Limits :
        LET r == getByFilters(memories, f, l, FALSE, NoId, NoId)
        IN  /\ lst.kind = "idle"
            /\ lst' = [kind |-> "walk", layer |-> "store", filters |-> f, limit |-> l,
                       starting_after |-> NoId, ending_before |-> NoId,
                       res |-> r, acc |-> r.data, pages |-> 1]
            /\ reqs' = [reqs EXCEPT !["c1"] = [IdleReq EXCEPT !.op = "walk",
                                                              !.before = memories]]
            /\ UNCHANGED <<memories, usedIds, now, prompts>>

\* the cursor of the next fetch of the traversal: the last id of the last page
WalkCursor ==
    IF lst.res.status = "ok" /\ lst.res.has_more /\ Len(lst.res.data) > 0
    THEN lst.res.data[Len(lst.res.data)].id ELSE NoId

\* during the traversal another request stores a new row
WalkInsert ==
    \E o \in StoreOwners, id \in Ids \ usedIds, t \in now..MaxTime :
        LET r == MemoryAdd(memories,
                           << [id |-> NoId, embedding |-> NoEmbedding,
                               memory |-> [memoryText |-> "t1", userId |-> o.userId,
                                           orgId |-> o.orgId, agentId |-> o.agentId]] >>,
                           <<id>>, t)
        IN  /\ lst.kind = "walk"
            /\ r.status = "ok"
            /\ memories' = r.table
            /\ usedIds' = usedIds \cup {id}
            /\ now' = t
            /\ UNCHANGED <<lst, prompts, reqs>>

\* during the traversal another request deletes a row, not the cursor row
WalkDelete ==
    \E id \in DOMAIN memories \ {WalkCursor} :
        /\ lst.kind = "walk"
        /\ memories' = MemoryDelete(memories, {id})
        /\ UNCHANGED <<usedIds, now, lst, prompts, reqs>>

\* the client is done with the traversal
WalkEnd ==
    /\ lst.kind = "walk"
    /\ lst' = Idle
    /\ reqs' = [reqs EXCEPT !["c1"] = IdleReq]
    /\ UNCHANGED <<memories, usedIds, now, prompts>>

NextList ==
    \/ StoreAdd
    \/ StoreDelete
    \/ ListCall
    \/ ListTotalCall
    \/ RouteListCall
    \/ SdkListCall
    \/ WalkStart
    \/ WalkNext
    \/ ListReturn

SpecList == Init /\ [][NextList]_vars

----------------------------------------------------------------------------
(* A forward traversal with inserts and deletes of other requests between  *)
(* its page fetches                                                        *)

NextWalk ==
    \/ StoreAdd
    \/ StoreDelete
    \/ WalkStartObserved
    \/ WalkNext
    \/ WalkInsert
    \/ WalkDelete
    \/ WalkEnd

SpecWalk == Init /\ [][NextWalk]_vars

----------------------------------------------------------------------------
(* Gnosis.add called again and again by one user over one connection; the *)
(* table already holds a row written for another user or organization     *)

AddCaller == [org |-> "orgA", userId |-> "u1"]

OtherOwners == {[org |-> "orgA", userId |-> "u2"], [org |-> "orgB", userId |-> "u1"]}

InitAdd ==
    /\ \E o \in OtherOwners :
          memories = MemoryAdd(<<>>,
                               << [id |-> NoId, embedding |-> NoEmbedding,
                                   memory |-> [memoryText |-> "t1", userId |-> o.userId,
                                               orgId |-> o.org, agentId |-> None]] >>,
                               <<1>>, 1).table
    /\ usedIds = {1}
    /\ now = 1
    /\ lst = Idle
    /\ prompts = {}
    /\ reqs = [r \in Slots |-> IdleReq]

NextAdd ==
    \/ StartAddObserved("c1", AddCaller.org, AddCaller.userId)
    \/ AddResolvePrompt("c1")
    \/ AddResolvePromptFails("c1")
    \/ AddExtractFacts("c1", FactLists)
    \/ AddEmbedFacts("c1")
    \/ AddQuery("c1")
    \/ AddReconcile("c1", UpdateLists)
    \/ AddApplyADD("c1")
    \/ AddApplyUPDATE("c1")
    \/ AddApplyDELETE("c1")
    \/ AddApplySkip("c1")
    \/ AddFails("c1")
    \/ ReqReturn("c1")

SpecAdd == InitAdd /\ [][NextAdd]_vars

----------------------------------------------------------------------------
(* Two API keys of two organizations, one connection each, all routes *)

SlotOrg == [r \in Slots |-> IF r = "c1" THEN "orgA" ELSE "orgB"]

SpecFactLists == {<<>>, <<"t1">>}
SpecUpdateLists ==
    { <<>>, <<Item("ADD", None, "t2")>>, <<Item("UPDATE", "0", "t2")>>,
      <<Item("DELETE", "0", "t1")>>, <<Item("UPDATE", "7", "t2")>> }
SpecQueries ==
    {[userId |-> None, agentId |-> None, limit |-> NoLimit, starting_after |-> c[1],
      ending_before |-> c[2]] : c \in {<<NoId, NoId>>, <<1, NoId>>, <<NoId, 2>>}}

\* the ids asked for by id: the two rows stored at the start
SpecTargets == {1, 2}

\* each organization has stored one memory already
InitSpec ==
    /\ memories = MemoryAdd(<<>>,
                            << [id |-> NoId, embedding |-> NoEmbedding,
                                memory |-> [memoryText |-> "t1", userId |-> "u1",
                                            orgId |-> "orgA", agentId |-> None]],
                               [id |-> NoId, embedding |-> NoEmbedding,
                                memory |-> [memoryText |-> "t1", userId |-> "u1",
                                            orgId |-> "orgB", agentId |-> None]] >>,
                            <<1, 2>>, 1).table
    /\ usedIds = {1, 2}
    /\ now = 1
    /\ lst = Idle
    /\ prompts = {}
    /\ reqs = [r \in Slots |-> IdleReq]

Next ==
    \E r \in Slots :
        \/ StartAdd(r, SlotOrg[r], "u1")
        \/ AddResolvePrompt(r)
        \/ AddResolvePromptFails(r)
        \/ AddExtractFacts(r, SpecFactLists)
        \/ AddEmbedFacts(r)
        \/ AddQuery(r)
        \/ AddReconcile(r, SpecUpdateLists)
        \/ AddApplyADD(r)
        \/ AddApplyUPDATE(r)
        \/ AddApplyDELETE(r)
        \/ AddApplySkip(r)
        \/ AddFails(r)
        \/ \E op \in {"get", "put", "delete"}, id \in SpecTargets :
              StartById(r, SlotOrg[r], op, id, IF op = "put" THEN "t2" ELSE None)
        \/ VerifyOwnership(r)
        \/ UpdateGet(r)
        \/ UpdateAdd(r)
        \/ DeleteRun(r)
        \/ ByIdFails(r)
        \/ SearchRequest(r, SlotOrg[r], "u1", "t1", 20)
        \/ \E q \in SpecQueries : ListRequest(r, SlotOrg[r], q)
        \/ ReqReturn(r)

Spec == InitSpec /\ [][Next]_vars

----------------------------------------------------------------------------
(* The Gnosis methods called one after the other over a table filled by   *)
(* direct Memory.add calls and by Gnosis.add                               *)

\* the caller owns the rows stored with an agentId; the other rows are foreign
GnosisCaller == [org |-> "orgB", userId |-> "u2"]

SearchUsers == {"u2", ""}
SearchLimits == {NoLimit, 1}

NextGnosis ==
    \/ reqs["c1"].op = "idle" /\ StoreAdd
    \/ StartAdd("c1", GnosisCaller.org, GnosisCaller.userId)
    \/ AddResolvePrompt("c1")
    \/ AddResolvePromptFails("c1")
    \/ AddExtractFacts("c1", SpecFactLists)
    \/ AddEmbedFacts("c1")
    \/ AddQuery("c1")
    \/ AddReconcile("c1", SpecUpdateLists)
    \/ AddApplyADD("c1")
    \/ AddApplyUPDATE("c1")
    \/ AddApplyDELETE("c1")
    \/ AddApplySkip("c1")
    \/ AddFails("c1")
    \/ \E op \in {"get", "put", "delete"}, id \in Ids, text \in Texts :
          StartGnosis("c1", op, id, IF op = "put" THEN text ELSE None)
    \/ GetRun("c1")
    \/ UpdateGet("c1")
    \/ UpdateAdd("c1")
    \/ DeleteRun("c1")
    \/ ByIdFails("c1")
    \/ \E u \in SearchUsers, l \in SearchLimits :
          SearchRequest("c1", GnosisCaller.org, u, "t1", l)
    \/ ReqReturn("c1")

SpecGnosis == Init /\ [][NextGnosis]_vars


----------------------------------------------------------------------------
(* Memory.add and Memory.delete called directly *)

BatchItem(id, org, text) ==
    [id |-> id, embedding |-> NoEmbedding,
     memory |-> [memoryText |-> text, userId |-> "u1", orgId |-> org, agentId |-> None]]

\* the items of a batch: new rows and rows under an id, with and without orgId
BatchItems ==
    {BatchItem(NoId, org, "t1") : org \in {"orgA", None, ""}}
    \cup {BatchItem(1, org, "t2") : org \in {"orgA", None, ""}}

Batches == {<<a>> : a \in BatchItems} \cup {<<a, b>> : a, b \in BatchItems}

NextStore ==
    \/ \E items \in Batches : StartStoreAdd("c1", items)
    \/ StoreAddRun("c1")
    \/ StoreAddFails("c1")
    \/ reqs["c1"].op = "idle" /\ StoreDelete
    \/ ReqReturn("c1")

SpecStore == Init /\ [][NextStore]_vars

----------------------------------------------------------------------------
(* Gnosis.add over a table that holds rows of several users; the userId of *)
(* POST /api/v1/memories is any string, the empty one included             *)

CandidateUsers == {"u1", ""}
CandidateUpdateLists == {<<>>, <<Item("DELETE", "0", "t1")>>}

NextCandidates ==
    \/ reqs["c1"].op = "idle" /\ StoreAdd
    \/ \E u \in CandidateUsers : StartAdd("c1", "orgA", u)
    \/ AddResolvePrompt("c1")
    \/ AddResolvePromptFails("c1")
    \/ AddExtractFacts("c1", FactLists)
    \/ AddEmbedFacts("c1")
    \/ AddQuery("c1")
    \/ AddReconcile("c1", CandidateUpdateLists)
    \/ AddApplyDELETE("c1")
    \/ AddFails("c1")
    \/ ReqReturn("c1")

SpecCandidates == Init /\ [][NextCandidates]_vars

----------------------------------------------------------------------------
(* Two connections of one organization: updates, deletes and Gnosis.add of *)
(* the same user interleaved at every await                                *)

RaceUpdateLists ==
    { <<>>, <<Item("ADD", None, "t2")>>, <<Item("UPDATE", "0", "t2")>>,
      <<Item("DELETE", "0", "t1")>>, <<Item("NONE", "0", "t1")>> }

NextRace ==
    \E r \in Slots :
        \/ StartAdd(r, "orgA", "u1")
        \/ AddResolvePrompt(r)
        \/ AddResolvePromptFails(r)
        \/ AddExtractFacts(r, SpecFactLists)
        \/ AddEmbedFacts(r)
        \/ AddQuery(r)
        \/ AddReconcile(r, RaceUpdateLists)
        \/ AddApplyADD(r)
        \/ AddApplyUPDATE(r)
        \/ AddApplyDELETE(r)
        \/ AddApplySkip(r)
        \/ AddFails(r)
        \/ \E op \in {"put", "delete"} :
              StartById(r, "orgA", op, 1, IF op = "put" THEN "t2" ELSE None)
        \/ VerifyOwnership(r)
        \/ UpdateGet(r)
        \/ UpdateAdd(r)
        \/ DeleteRun(r)
        \/ ByIdFails(r)
        \/ ReqReturn(r)

SpecRace == InitSpec /\ [][NextRace]_vars

----------------------------------------------------------------------------
(* The prompt calls *)

\* the message sequences an organization sets
PromptContents == {<<>>, <<"sys1">>, <<"sys2", "usr2">>}

\* one prompt request, or one Gnosis.add that extracts no fact, of slot r
PromptSteps(r) ==
    \/ \E org \in Orgs :
          \/ StartPrompt(r, org, "getPrompt", NoPrompt)
          \/ StartPrompt(r, org, "resetPrompt", NoPrompt)
          \/ \E content \in PromptContents : StartPrompt(r, org, "setPrompt", content)
          \/ StartAdd(r, org, "u1")
    \/ PromptSelect(r)
    \/ PromptSelectFails(r)
    \/ PromptLazySave(r)
    \/ PromptLazySaveFails(r)
    \/ PromptUpsert(r)
    \/ PromptUpsertFails(r)
    \/ AddExtractFacts(r, {<<>>})
    \/ AddFails(r)
    \/ ReqReturn(r)

\* the calls made one after the other, over one connection
NextPromptSeq == PromptSteps("c1")

SpecPromptSeq == Init /\ [][NextPromptSeq]_vars

\* two connections, their calls interleaved at every await
NextPrompt == \E r \in Slots : PromptSteps(r)

SpecPrompt == Init /\ [][NextPrompt]_vars

----------------------------------------------------------------------------
(* Vocabulary of the pagination claims *)

Rows == {memories[i] : i \in DOMAIN memories}

\* the rows matching a filter set: the conjunction of its equalities
Matching(f) ==
    {r \in Rows : /\ f.userId \notin {None, ""} => r.userId = f.userId
                  /\ f.orgId \notin {None, ""} => r.orgId = f.orgId
                  /\ f.agentId \notin {None, ""} => r.agentId = f.agentId}

\* a comes strictly after b in the (createdAt DESC, id DESC) listing
After(a, b) ==
    a.createdAt < b.createdAt \/ (a.createdAt = b.createdAt /\ a.id < b.id)

\* the limit after clamping to 1..100
PageSize(l) == IF l < 1 THEN 1 ELSE IF l > 100 THEN 100 ELSE l

\* page lists rows of S, each as stored, in strictly decreasing (createdAt, id)
PageOf(page, S) ==
    /\ \A i \in 1..Len(page) : \E r \in S : page[i] = RowView(r)
    /\ \A i \in 1..(Len(page) - 1) : After(page[i + 1], page[i])

PageIds(page) == {page[i].id : i \in 1..Len(page)}

\* the call recorded in lst went through Memory.getByFilters
ReachedStore == lst.layer = "store" \/ lst.res.queries > 0

\* C1: a forward traversal (no cursor, then starting_after = last id of the
\* previous page) has, after each page, returned exactly the first
\* min(pages * L, n) rows of the (createdAt DESC, id DESC) listing of the n
\* matching rows, each once, and reports has_more exactly while rows remain;
\* so it ends with has_more = false and the whole listing
C1_ForwardComplete ==
    lst.kind = "walk" =>
        LET S == Matching(lst.filters)
            L == PageSize(lst.limit)
            n == Cardinality(S)
        IN  /\ lst.res.status = "ok"
            /\ PageOf(lst.acc, S)
            /\ Len(lst.acc) = Min(lst.pages * L, n)
            /\ \A r \in S : r.id \notin PageIds(lst.acc) =>
                    \A i \in 1..Len(lst.acc) : After(r, lst.acc[i])
            /\ lst.res.has_more = (lst.pages * L < n)
            /\ (~lst.res.has_more => Len(lst.acc) = n)

C1_Witness ==
    /\ lst.kind = "walk"
    /\ lst.pages >= 2
    /\ ~lst.res.has_more
    /\ Len(lst.acc) = MaxRows
    /\ \E i \in 1..(Len(lst.acc) - 1) : lst.acc[i].createdAt = lst.acc[i + 1].createdAt
    /\ \E i \in 1..(Len(lst.acc) - 1) : lst.acc[i].createdAt > lst.acc[i + 1].createdAt

\* the rows a forward call has left to serve: matching, strictly after the cursor
ForwardRest ==
    {r \in Matching(lst.filters) :
        lst.starting_after # NoId => After(r, memories[lst.starting_after])}

\* C2: a forward call has has_more = true iff more than L matching rows lie
\* strictly after the cursor, and its page holds min(L, that number) rows
C2_ForwardHasMoreExact ==
    (lst.kind = "call" /\ lst.res.status = "ok" /\ lst.ending_before = NoId) =>
        /\ lst.res.has_more = (Cardinality(ForwardRest) > PageSize(lst.limit))
        /\ Len(lst.res.data) = Min(PageSize(lst.limit), Cardinality(ForwardRest))

C2_Witness ==
    /\ lst.kind = "call" /\ lst.res.status = "ok"
    /\ lst.starting_after # NoId
    /\ Cardinality(ForwardRest) = PageSize(lst.limit)
    /\ Len(lst.res.data) = PageSize(lst.limit)
    /\ ~lst.res.has_more

\* the matching rows strictly before the cursor of a backward call
BackwardRest ==
    {r \in Matching(lst.filters) : After(memories[lst.ending_before], r)}

\* C3: a backward call returns, in listing order, the min(L, k) matching rows
\* that immediately precede the cursor row (k rows precede it), not the L
\* first rows of the listing; nothing before the cursor gives an empty page
C3_BackwardAdjacent ==
    (lst.kind = "call" /\ lst.res.status = "ok" /\ lst.ending_before # NoId) =>
        /\ PageOf(lst.res.data, BackwardRest)
        /\ Len(lst.res.data) = Min(PageSize(lst.limit), Cardinality(BackwardRest))
        /\ \A r \in BackwardRest : r.id \notin PageIds(lst.res.data) =>
                \A i \in 1..Len(lst.res.data) : After(lst.res.data[i], r)
        /\ (BackwardRest = {} => lst.res.data = <<>>)

C3_Witness ==
    /\ lst.kind = "call" /\ lst.res.status = "ok"
    /\ lst.ending_before # NoId
    /\ Cardinality(BackwardRest) > PageSize(lst.limit)
    /\ Len(lst.res.data) = PageSize(lst.limit)
    /\ \E r \in BackwardRest : r.id \notin PageIds(lst.res.data)

\* C4: a getByFilters call with ending_before set to an existing row (and no
\* starting_after) succeeds and reports has_more = true, whatever the page holds
C4_BackwardHasMoreAlways ==
    (/\ lst.kind = "call" /\ ReachedStore
     /\ lst.starting_after = NoId
     /\ lst.ending_before \in DOMAIN memories) =>
        lst.res.status = "ok" /\ lst.res.has_more

C4_Witness ==
    /\ lst.kind = "call" /\ lst.res.status = "ok"
    /\ lst.ending_before \in DOMAIN memories
    /\ lst.res.data = <<>>
    /\ lst.res.has_more

\* C5: every page returned, forward or backward, is strictly decreasing in
\* (createdAt, id): equal createdAt in decreasing id order, no id twice
C5_PageOrder ==
    (lst.kind \in {"call", "walk"} /\ lst.res.status = "ok") =>
        /\ \A i \in 1..(Len(lst.res.data) - 1) :
                After(lst.res.data[i + 1], lst.res.data[i])
        /\ \A i, j \in 1..Len(lst.res.data) :
                lst.res.data[i].id = lst.res.data[j].id => i = j

C5_Witness ==
    /\ lst.kind = "call" /\ lst.res.status = "ok"
    /\ lst.ending_before # NoId
    /\ Len(lst.res.data) >= 2
    /\ lst.res.data[1].createdAt = lst.res.data[2].createdAt
    /\ lst.res.data[1].id > lst.res.data[2].id

\* C6: a listing call with both starting_after and ending_before set fails at
\* the layer it enters (SDK, route, getByFilters), reads no row, returns no page
C6_CursorExclusive ==
    (lst.kind = "call" /\ lst.starting_after # NoId /\ lst.ending_before # NoId) =>
        /\ lst.res.status = "error"
        /\ lst.res.queries = 0
        /\ lst.res.data = <<>>

C6_Witness ==
    /\ lst.kind = "call" /\ lst.layer = "store"
    /\ lst.starting_after \in DOMAIN memories
    /\ lst.ending_before \in DOMAIN memories
    /\ lst.res.status = "error"

\* C7: a getByFilters call whose single cursor is not the id of a row present
\* at the call fails with "Cursor record not found" and returns no page
C7_CursorNotFound ==
    (/\ lst.kind = "call" /\ ReachedStore
     /\ (lst.starting_after = NoId) # (lst.ending_before = NoId)
     /\ lst.starting_after \notin DOMAIN memories
     /\ lst.ending_before \notin DOMAIN memories) =>
        /\ lst.res.status = "error"
        /\ lst.res.error = "Cursor record not found"
        /\ lst.res.data = <<>>

C7_Witness ==
    /\ lst.kind = "call" /\ lst.res.status = "error"
    /\ lst.ending_before = NoId
    /\ lst.starting_after \in usedIds \ DOMAIN memories
    /\ Matching(lst.filters) # {}
    /\ lst.res.error = "Cursor record not found"

----------------------------------------------------------------------------
(* Organization scoping *)

\* the rows of the table that a step overwrote or deleted
Touched == {id \in DOMAIN memories : id \notin DOMAIN memories' \/ memories'[id] # memories[id]}

\* C8: whatever the two organizations' requests interleave to, a request
\* answers only with rows of its own organization, overwrites or deletes only
\* rows of its own organization, writes rows under its own organization only,
\* and a get, update or delete by id of a row of the other organization is
\* answered "Memory not found" (404) with the table left as it was.
C8_OrgScoping ==
    [][ \A r \in Slots :
          LET q == reqs[r]
              q2 == reqs'[r]
          IN  q2 # q =>
                /\ \A row \in q2.resp.rows : row.orgId = q2.org
                /\ \A id \in Touched : memories[id].orgId = q.org
                /\ \A id \in DOMAIN memories' :
                      memories'[id].orgId = IF id \in DOMAIN memories
                                            THEN memories[id].orgId ELSE q.org
                /\ (/\ q.op \in {"get", "put", "delete"} /\ q.pc = "verify"
                    /\ q.id \in DOMAIN memories
                    /\ memories[q.id].orgId # q.org) =>
                      /\ q2.pc = "done"
                      /\ q2.resp.status = "404"
                      /\ q2.resp.error = "Memory not found"
                      /\ q2.resp.rows = {}
                      /\ memories' = memories
      ]_vars

C8_Witness ==
    /\ reqs["c2"].op = "put" /\ reqs["c2"].pc = "done"
    /\ reqs["c2"].resp.status = "404"
    /\ reqs["c2"].id \in DOMAIN memories
    /\ memories[reqs["c2"].id].orgId = "orgA"
    /\ reqs["c1"].op = "search" /\ reqs["c1"].resp.rows # {}
    /\ \E id \in DOMAIN memories : memories[id].orgId = "orgB"

----------------------------------------------------------------------------
(* Gnosis.add *)

\* the keys of the index map built from the candidates of this call
IndexKeys(q) == {IndexStr(i) : i \in 1..Len(q.similar)}

\* the item the loop is at is an UPDATE or DELETE without a usable index
UnmappedItem(q) ==
    /\ q.op = "add" /\ q.pc = "apply"
    /\ q.updates[q.k].event \in {"UPDATE", "DELETE"}
    /\ \/ q.updates[q.k].id \in {None, ""}
       \/ q.updates[q.k].id \notin IndexKeys(q)

\* C9: an UPDATE or DELETE item whose id is missing or is no key of the index
\* map is passed over: the table is not written, no operation is appended,
\* the call does not fail, and the loop moves to the next item (or, after
\* the last item, returns the operations collected so far).
C9_IndexMapSafety ==
    [][ LET q == reqs["c1"]
            q2 == reqs'["c1"]
        IN  UnmappedItem(q) =>
              /\ memories' = memories
              /\ q2.resp.status # "500"
              /\ IF q.k < Len(q.updates)
                 THEN q2.pc = "apply" /\ q2.k = q.k + 1 /\ q2.ops = q.ops
                 ELSE q2.pc = "done" /\ q2.resp.status = "200" /\ q2.resp.ops = q.ops
      ]_vars

C9_Witness ==
    LET q == reqs["c1"]
    IN  /\ q.op = "add" /\ q.pc = "apply" /\ q.k = 2
        /\ q.similar # <<>>
        /\ q.updates[1].event \in {"UPDATE", "DELETE"} /\ q.updates[1].id = "7"
        /\ q.updates[2].event = "ADD"
        /\ q.ops = <<>>
        /\ q.resp = NoResp

\* C10: when the fact extraction returns no fact, the call returns the empty
\* operation list at once: the table is as it was when the call started, and
\* no embedding call, candidate query or reconciliation call has been made.
C10_ZeroFacts ==
    [][ LET q == reqs["c1"]
            q2 == reqs'["c1"]
        IN  /\ (q2.op = "add" /\ q2.pc \in {"prompt", "extract"}) =>
                  /\ memories' = memories
                  /\ q2.embedCalls = 0 /\ q2.queryCalls = 0 /\ q2.reconcileCalls = 0
            /\ (q.op = "add" /\ q.pc = "extract" /\ q2.facts = <<>>
                    /\ q2.resp.status # "500") =>
                  /\ q2.pc = "done" /\ q2.resp.status = "200" /\ q2.resp.ops = <<>>
                  /\ memories' = memories
                  /\ q2.embedCalls = 0 /\ q2.queryCalls = 0 /\ q2.reconcileCalls = 0
      ]_vars

C10_Witness ==
    LET q == reqs["c1"]
    IN  /\ q.op = "add" /\ q.pc = "done"
        /\ q.resp.status = "200" /\ q.resp.ops = <<>>
        /\ q.embedCalls = 0 /\ q.queryCalls = 0 /\ q.reconcileCalls = 0
        /\ DOMAIN memories # {}

----------------------------------------------------------------------------
(* Gnosis.update, Gnosis.delete, Gnosis.get *)

\* the step of slot c1 that ends a Gnosis.update with success
UpdateDone == 
    /\ reqs["c1"].op = "put" /\ reqs["c1"].pc = "updAdd"
    /\ reqs'["c1"].resp.status = "200"

\* the step of slot c1 in which an UPDATE item of Gnosis.add is applied
ItemUpdateDone ==
    /\ reqs["c1"].op = "add" /\ reqs["c1"].pc = "apply"
    /\ reqs["c1"].updates[reqs["c1"].k].event = "UPDATE"
    /\ reqs'["c1"].resp.status # "500"
    /\ ResolveItem(reqs["c1"].similar, reqs["c1"].updates[reqs["c1"].k]) # NoId

\* the id that step writes
ItemUpdateId == ResolveItem(reqs["c1"].similar, reqs["c1"].updates[reqs["c1"].k])

\* C11: Gnosis.update(id, t) of an existing row, then Gnosis.get(id): the
\* memory returned has that id and text t, the row's createdAt is what it
\* was, and the table holds as many rows as before.
C11_UpdateRoundTrip ==
    [][ UpdateDone =>
          LET id == reqs["c1"].id
          IN  /\ id \in DOMAIN memories
              /\ GnosisGet(memories', id) # {}
              /\ \A m \in GnosisGet(memories', id) :
                    m.id = id /\ m.text = reqs["c1"].text
              /\ memories'[id].createdAt = memories[id].createdAt
              /\ Cardinality(DOMAIN memories') = Cardinality(DOMAIN memories)
      ]_vars

C11_Witness ==
    LET q == reqs["c1"]
    IN  /\ q.op = "put" /\ q.pc = "done" /\ q.resp.status = "200"
        /\ q.text = "t2"
        /\ q.id \in DOMAIN memories
        /\ memories[q.id].memoryText = "t2"
        /\ memories[q.id].createdAt < now
        /\ Cardinality(DOMAIN memories) >= 2

\* C12: a successful modification of an existing row, by Gnosis.update or by
\* an UPDATE item of Gnosis.add, leaves updatedAt strictly later than it was
\* and createdAt as it was.
C12_UpdatedAtAdvances ==
    [][ /\ UpdateDone =>
              /\ memories'[reqs["c1"].id].updatedAt > memories[reqs["c1"].id].updatedAt
              /\ memories'[reqs["c1"].id].createdAt = memories[reqs["c1"].id].createdAt
        /\ ItemUpdateDone =>
              /\ memories'[ItemUpdateId].updatedAt > memories[ItemUpdateId].updatedAt
              /\ memories'[ItemUpdateId].createdAt = memories[ItemUpdateId].createdAt
      ]_vars

\* C13: Gnosis.update leaves userId, orgId and agentId of the row as they were.
C13_UpdateKeepsOwner ==
    [][ UpdateDone =>
          LET id == reqs["c1"].id
          IN  /\ memories'[id].userId = memories[id].userId
              /\ memories'[id].orgId = memories[id].orgId
              /\ memories'[id].agentId = memories[id].agentId
      ]_vars

\* C14: Gnosis.delete(id) succeeds for every id, stored or not, so also when
\* repeated; Gnosis.get(id) is null afterwards, and every row with another
\* id is still there, unchanged.
C14_DeleteIdempotent ==
    /\ [](reqs["c1"].op = "delete" /\ reqs["c1"].pc = "del" => ENABLED DeleteRun("c1"))
    /\ [][ (/\ reqs["c1"].op = "delete" /\ reqs["c1"].pc = "del"
            /\ reqs'["c1"].resp.status = "200") =>
              /\ GnosisGet(memories', reqs["c1"].id) = {}
              /\ \A id \in DOMAIN memories \ {reqs["c1"].id} :
                    id \in DOMAIN memories' /\ memories'[id] = memories[id]
         ]_vars

C14_Witness ==
    LET q == reqs["c1"]
    IN  /\ q.op = "delete" /\ q.pc = "done" /\ q.resp.status = "200"
        /\ q.id \in usedIds \ DOMAIN memories
        /\ \E id \in DOMAIN memories : id < q.id

----------------------------------------------------------------------------
(* Gnosis.add: failures of the providers *)

\* the item the loop is at has its embedding computed inside Memory.add
ItemEmbeds(q) ==
    LET item == q.updates[q.k]
    IN  \/ item.event = "UPDATE" /\ ResolveItem(q.similar, item) # NoId
        \/ item.event = "ADD" /\ FactEmbedding(q.facts, q.embs, item.text) = NoEmbedding

\* the step of slot c1 in which a call of the text generator or of the
\* embedding provider throws
ProviderFails ==
    /\ reqs["c1"].op = "add"
    /\ reqs'["c1"].resp.status = "500"
    /\ \/ reqs["c1"].pc \in {"extract", "embed", "reconcile"}
       \/ reqs["c1"].pc = "apply" /\ ItemEmbeds(reqs["c1"])

\* C15: when a provider call fails during Gnosis.add, the call fails and the
\* table is what it was when the call began.
C15_NoPartialCommit ==
    [][ ProviderFails => memories' = reqs["c1"].before ]_vars

----------------------------------------------------------------------------
(* Gnosis.add: the UPDATE branch; embeddings *)

\* C16: an UPDATE item whose index resolves, applied with no other request
\* running, changes nothing but memoryText, embedding and updatedAt of the
\* row under the mapped id: its id, userId, orgId, agentId and createdAt
\* stay, every other row stays, and the table holds as many rows as before.
C16_UpdateInPlace ==
    [][ ItemUpdateDone =>
          /\ ItemUpdateId \in DOMAIN memories
          /\ DOMAIN memories' = DOMAIN memories
          /\ \A id \in DOMAIN memories \ {ItemUpdateId} : memories'[id] = memories[id]
          /\ memories'[ItemUpdateId].id = memories[ItemUpdateId].id
          /\ memories'[ItemUpdateId].userId = memories[ItemUpdateId].userId
          /\ memories'[ItemUpdateId].orgId = memories[ItemUpdateId].orgId
          /\ memories'[ItemUpdateId].agentId = memories[ItemUpdateId].agentId
          /\ memories'[ItemUpdateId].createdAt = memories[ItemUpdateId].createdAt
      ]_vars

\* C17: every stored row's embedding is the provider's embedding of the
\* row's current memoryText, whatever Gnosis.add and Gnosis.update did.
C17_EmbeddingInSync ==
    \A id \in DOMAIN memories : memories[id].embedding = EmbedOf(memories[id].memoryText)

C17_Witness ==
    LET q == reqs["c1"]
    IN  /\ q.op = "add" /\ q.pc = "done" /\ q.resp.status = "200"
        /\ Len(q.resp.ops) = 1
        /\ q.resp.ops[1].type = "ADD" /\ q.resp.ops[1].text = "t2"
        /\ memories[q.resp.ops[1].id].embedding = EmbedOf("t2")
        /\ \E id \in DOMAIN memories :
              memories[id].memoryText = "t2" /\ memories[id].createdAt < now

----------------------------------------------------------------------------
(* Gnosis.search *)

\* the stored memories of the user and organization a search names
Owned(q) == {m \in Rows : m.userId = q.userId /\ m.orgId = q.org}

\* the score a stored row gets for the query of search q
ScoreOf(m, q) == 1 - CosineDistance(m.embedding, EmbedOf(q.text))

\* a search has been answered
Searched(q) == q.op = "search" /\ q.pc = "done" /\ q.resp.status = "200"

\* C18: every memory a search returns has the userId and the orgId of the
\* call, the scores do not increase along the list, and no memory of that
\* user and organization that is left out scores higher than a returned one.
C18_SearchScopedRanked ==
    LET q == reqs["c1"]
        res == q.resp.ops
    IN  Searched(q) =>
          /\ \A i \in 1..Len(res) : res[i].userId = q.userId /\ res[i].orgId = q.org
          /\ \A i \in 1..(Len(res) - 1) : res[i].score >= res[i + 1].score
          /\ \A m \in Owned(q) :
                (\A i \in 1..Len(res) : res[i].id # m.id) =>
                    \A i \in 1..Len(res) : ScoreOf(m, q) <= res[i].score

\* C19: a search with limit >= 1 returns min(limit, M) memories, M the number
\* of stored memories of that user and organization; without a limit,
\* min(100, M).
C19_SearchLimit ==
    LET q == reqs["c1"]
        limit == IF q.limit = NoLimit THEN SearchDefaultLimit ELSE q.limit
    IN  (Searched(q) /\ Truthy(q.userId)) =>
            Len(q.resp.ops) = Min(limit, Cardinality(Owned(q)))

----------------------------------------------------------------------------
(* Memory.getByFilters: includeTotal *)

\* C20: called with includeTotal = true, getByFilters returns a total equal
\* to the number of rows matching the filters, whichever cursor is passed.
C20_TotalOnRequest ==
    (lst.kind = "total" /\ lst.res.status = "ok") =>
        ResultTotal(lst.res) = Cardinality(Matching(lst.filters))

----------------------------------------------------------------------------
(* PromptService: what an organization reads *)

\* what a getFactExtraction(org) whose statements succeed returns in this state
ReadPrompt(tbl, org) ==
    IF PromptStored(tbl, org) THEN SelectPrompt(tbl, org) ELSE DefaultPrompt

\* the step of slot r in which getFactExtraction hands back its answer
GotPrompt(r) ==
    /\ reqs[r].op \in {"getPrompt", "add"}
    /\ reqs[r].pc \in {"prompt", "promptSave"}
    /\ reqs'[r].pc \in {"done", "extract"}

\* the step of slot r in which a set or reset is stored
PromptWritten(r) ==
    /\ reqs[r].op \in {"setPrompt", "resetPrompt"} /\ reqs[r].pc = "upsert"
    /\ reqs'[r].resp.status = "200"

\* C21: with the calls made one after the other, the prompts table holds at
\* most one row per organization; a set of M makes the organization read M,
\* a reset makes it read the default, a get returns what the organization
\* reads (the default while nothing was set) and changes no reading, and no
\* call changes what another organization reads. A get whose select throws
\* answers the default and is left aside.
C21_PromptLastWrite ==
    /\ [](\A org \in Orgs : Cardinality(PromptRows(prompts, org)) <= 1)
    /\ [][ LET q == reqs["c1"]
               q2 == reqs'["c1"]
           IN  /\ PromptWritten("c1") =>
                     ReadPrompt(prompts', q.org) =
                         IF q.op = "setPrompt" THEN q.prompt ELSE DefaultPrompt
               /\ GotPrompt("c1") =>
                     \/ q2.prompt = ReadPrompt(prompts, q.org)
                     \/ PromptSelectFails("c1")
               /\ ~PromptWritten("c1") =>
                     \A org \in Orgs : ReadPrompt(prompts', org) = ReadPrompt(prompts, org)
               /\ \A org \in Orgs \ {q.org} :
                     ReadPrompt(prompts', org) = ReadPrompt(prompts, org)
         ]_vars

C21_Witness ==
    LET q == reqs["c1"]
    IN  /\ q.op = "getPrompt" /\ q.pc = "done" /\ q.org = "orgA"
        /\ q.prompt = <<"sys2", "usr2">>
        /\ ReadPrompt(prompts, "orgB") = <<>>
        /\ Cardinality(prompts) = 2

\* C22: the prompt lookup of Gnosis.add never ends the call: it goes on to
\* the fact extraction, and with the built-in default where the organization
\* has no stored prompt or the lookup (or the lazy save) threw.
C22_PromptLookupNeverAborts ==
    [][ LET q == reqs["c1"]
            q2 == reqs'["c1"]
        IN  (q.op = "add" /\ q.pc \in {"prompt", "promptSave"}) =>
              /\ q2.op = "add" /\ q2.resp = NoResp
              /\ q2.pc \in {"promptSave", "extract"}
              /\ (/\ q2.pc = "extract"
                  /\ \/ ~PromptStored(prompts, q.org)
                     \/ PromptSelectFails("c1")
                     \/ PromptLazySaveFails("c1")) => q2.prompt = DefaultPrompt
      ]_vars

C22_Witness ==
    LET q == reqs["c1"]
    IN  /\ q.op = "add" /\ q.pc = "extract"
        /\ q.prompt = DefaultPrompt
        /\ ~PromptStored(prompts, q.org)
        /\ \E org \in Orgs : PromptStored(prompts, org) /\ ReadPrompt(prompts, org) # DefaultPrompt

----------------------------------------------------------------------------
(* PromptService under interleaving *)

\* C28: when the lazy save of a getFactExtraction(org) that found no row is
\* executed after a setFactExtraction(org, M) of the other connection has
\* completed, the organization still reads M once both calls are done.
C28_SetNotLost ==
    [][ \A r \in Slots : \A w \in Slots \ {r} :
          (/\ reqs[r].op \in {"getPrompt", "add"} /\ reqs[r].pc = "promptSave"
           /\ reqs'[r] # reqs[r]
           /\ reqs[w].op = "setPrompt" /\ reqs[w].pc = "done"
           /\ reqs[w].resp.status = "200"
           /\ reqs[w].org = reqs[r].org) =>
              ReadPrompt(prompts', reqs[r].org) = reqs[w].prompt
      ]_vars

----------------------------------------------------------------------------
(* Memory.add: batches *)

\* C23: a Memory.add whose batch holds an item without orgId fails and leaves
\* every row as it was, the rows of the items that carry an orgId included;
\* a Memory.add that fails for any reason leaves every row as it was.
C23_AddAllOrNothing ==
    [][ LET q == reqs["c1"]
            q2 == reqs'["c1"]
        IN  (q.op = "storeAdd" /\ q.pc = "insert") =>
              /\ MemoryAddInvalid(q.memory) => q2.resp.status = "error"
              /\ q2.resp.status # "200" => memories' = memories
      ]_vars

C23_Witness ==
    LET q == reqs["c1"]
    IN  /\ q.op = "storeAdd" /\ q.pc = "done"
        /\ q.resp.status = "error" /\ q.resp.error = "has no orgId"
        /\ Len(q.memory) = 2
        /\ q.memory[1].id = 1 /\ q.memory[1].memory.orgId = "orgA"
        /\ q.memory[2].memory.orgId = None
        /\ DOMAIN memories = {1}
        /\ memories[1].memoryText = "t1"

----------------------------------------------------------------------------
(* Gnosis.add: the apply loop *)

\* C24: when the store call of item k throws, the table stays as the first
\* k-1 items left it (their effects are kept, item k has none), the call
\* ends with the error and no operation list, and nothing is applied after.
C24_NoRollback ==
    [][ LET q == reqs["c1"]
            q2 == reqs'["c1"]
        IN  /\ (q.op = "add" /\ q.pc = "apply" /\ q2.resp.status = "500") =>
                  /\ memories' = memories
                  /\ q2.pc = "done" /\ q2.resp.ops = <<>>
            /\ (q.op = "add" /\ q.pc = "done") => memories' = memories
      ]_vars

C24_Witness ==
    LET q == reqs["c1"]
    IN  /\ q.op = "add" /\ q.pc = "done" /\ q.resp.status = "500"
        /\ q.resp.ops = <<>>
        /\ Cardinality(DOMAIN q.before) = 2
        /\ \E id \in DOMAIN memories \ DOMAIN q.before : memories[id].memoryText = "t2"

\* the operation an applied item stands for in the returned list
OpMatches(op, item, similar) ==
    /\ op.type = item.event
    /\ item.event \in {"ADD", "UPDATE"} => op.text = item.text
    /\ item.event \in {"UPDATE", "DELETE"} => op.id = ResolveItem(similar, item)

\* C25: the loop handles the items in the order of the answer, one per step;
\* a NONE item and an UPDATE or DELETE item whose index does not resolve
\* leave table and operation list alone, every other item appends exactly
\* its operation; so the list returned on success is the items that are
\* left, in order, one entry each.
C25_OpsMirrorEmission ==
    [][ LET q == reqs["c1"]
            q2 == reqs'["c1"]
            item == q.updates[q.k]
            ops2 == IF q2.pc = "done" THEN q2.resp.ops ELSE q2.ops
            Kept(it) == ~ItemSkipped(q.similar, it)
            kept == SelectSeq(q.updates, Kept)
        IN  (q.op = "add" /\ q.pc = "apply" /\ q2.resp.status # "500") =>
              /\ (q2.pc = "done") = (q.k = Len(q.updates))
              /\ q2.pc # "done" => (q2.pc = "apply" /\ q2.k = q.k + 1)
              /\ IF ItemSkipped(q.similar, item)
                 THEN ops2 = q.ops /\ memories' = memories
                 ELSE /\ Len(ops2) = Len(q.ops) + 1
                      /\ SubSeq(ops2, 1, Len(q.ops)) = q.ops
                      /\ OpMatches(ops2[Len(ops2)], item, q.similar)
              /\ q2.pc = "done" =>
                    /\ q2.resp.status = "200"
                    /\ Len(q2.resp.ops) = Len(kept)
                    /\ \A i \in 1..Len(kept) : OpMatches(q2.resp.ops[i], kept[i], q.similar)
      ]_vars

C25_Witness ==
    LET q == reqs["c1"]
    IN  /\ q.op = "add" /\ q.pc = "done" /\ q.resp.status = "200"
        /\ Len(q.resp.ops) = 2
        /\ q.resp.ops[1].type = "DELETE" /\ q.resp.ops[2].type = "ADD"
        /\ q.resp.ops[1].id \notin DOMAIN memories
        /\ q.resp.ops[2].id \in DOMAIN memories

----------------------------------------------------------------------------
(* Gnosis.add: candidates and index map *)

\* C26: when a Gnosis.add reaches the reconciliation, its candidates are the
\* stored rows of the caller's userId and orgId (the union of the per-fact
\* query results), each once; candidate number i is shown under the string
\* i with its text and nothing else, the map sends the string i to the id of
\* candidate i, and distinct indices map to distinct ids.
C26_IndexMapBijection ==
    LET q == reqs["c1"]
        view == OldMemories(q.similar)
        n == Len(q.similar)
    IN  (q.op = "add" /\ q.pc = "reconcile") =>
          /\ \A i, j \in 1..n : q.similar[i].id = q.similar[j].id => i = j
          /\ {q.similar[i].id : i \in 1..n} =
                {m.id : m \in {x \in Rows : x.userId = q.userId /\ x.orgId = q.org}}
          /\ \A i \in 1..n :
                /\ q.similar[i].userId = q.userId /\ q.similar[i].orgId = q.org
                /\ DOMAIN view[i] = {"id", "text"}
                /\ view[i].id = ToString(i - 1)
                /\ view[i].text = memories[q.similar[i].id].memoryText
                /\ uuidMappingGet(q.similar, ToString(i - 1)) = q.similar[i].id
          /\ \A i, j \in 1..n :
                uuidMappingGet(q.similar, ToString(i - 1))
                    = uuidMappingGet(q.similar, ToString(j - 1)) => i = j

----------------------------------------------------------------------------
(* Updates and deletes of one row by two requests *)

\* the step of slot r is the write of Gnosis.update or of an UPDATE item
UpdateWrite(r) ==
    /\ reqs'[r] # reqs[r]
    /\ \/ reqs[r].op = "put" /\ reqs[r].pc = "updAdd"
       \/ /\ reqs[r].op = "add" /\ reqs[r].pc = "apply"
          /\ reqs[r].updates[reqs[r].k].event = "UPDATE"

\* C27: whatever two requests interleave to, the write of Gnosis.update or
\* of an UPDATE item inserts no row: a row that a delete removed after the
\* request read it is not stored again, and rows come from ADD items only.
C27_UpdateNeverCreates ==
    [][ \A r \in Slots :
          UpdateWrite(r) => DOMAIN memories' \subseteq DOMAIN memories ]_vars

----------------------------------------------------------------------------
(* Forward traversal while the table changes *)

\* the matching rows stored at the first fetch and still stored
Survivors ==
    {r \in Matching(lst.filters) :
        r.id \in DOMAIN reqs["c1"].before /\ reqs["c1"].before[r.id] = r}

\* C29: in a forward traversal during which other requests insert rows and
\* delete rows other than the cursor row, every fetch succeeds, no id is
\* returned twice, and once has_more is false every matching row stored
\* since the first fetch has been returned.
C29_WalkStable ==
    lst.kind = "walk" =>
        /\ lst.res.status = "ok"
        /\ \A i, j \in 1..Len(lst.acc) : lst.acc[i].id = lst.acc[j].id => i = j
        /\ ~lst.res.has_more => \A r \in Survivors : r.id \in PageIds(lst.acc)

C29_Witness ==
    /\ lst.kind = "walk" /\ lst.pages = 3 /\ ~lst.res.has_more
    /\ Len(lst.acc) = 3
    /\ Cardinality(Survivors) = 1
    /\ lst.acc[3].id \notin DOMAIN reqs["c1"].before
    /\ lst.acc[1].id \notin DOMAIN memories

----------------------------------------------------------------------------
(* Listing and the rows outside the filters *)

\* the table with only the rows that match a filter set
VisibleTable(f) == [id \in {r.id : r \in Matching(f)} |-> memories[id]]

\* C30: a getByFilters call with an orgId gives the outcome it gives on the
\* table that holds the matching rows only: the same page and has_more, or
\* the same error; a cursor id of a row outside the filters counts as a
\* cursor that does not exist.
C30_ListingIndependent ==
    (lst.kind = "call" /\ lst.layer = "store" /\ Truthy(lst.filters.orgId)) =>
        lst.res = getByFilters(VisibleTable(lst.filters), lst.filters, lst.limit,
                               FALSE, lst.starting_after, lst.ending_before)

====
